---- MODULE Spec2Model ----
(***************************************************************************)
(* Model of the extraction registry, the extraction schemas' confidence    *)
(* convention, the extraction strategies, the OCR client and the HTTP      *)
(* endpoint of MinerU-Langchain-Extractor.                                 *)
(*                                                                         *)
(* Text is a sequence of characters; a character is a one-element string   *)
(* (non-ASCII characters of the source are written as named tokens such as *)
(* "<yen>").  Confidence values are exact rationals written as integer     *)
(* numerators over Scale.                                                  *)
(***************************************************************************)
EXTENDS Integers, Sequences, FiniteSets, TLC

VARIABLES
    models,      \* ExtractorRegistry._models
    extractors,  \* ExtractorRegistry._extractors
    call,        \* the registry call that has just run and what it gave back
    latest,      \* history: per identifier, the schema registered last
    inst,        \* a schema instance whose confidence is computed
    conf,        \* the last value calculate_confidence returned for inst
    req,         \* the POST /extract request the server is handling
    ocr,         \* the OCRClient call that has just run and what it gave back
    heur         \* the heuristic extraction that has just run

vars == <<models, extractors, call, latest, inst, conf, req, ocr, heur>>

\* ------------------------------------------------------------------ bounds
MaxModels == 1       \* identifiers the identifier -> schema mapping may hold
MaxExtractors == 2   \* strategies the registry may hold
MaxItems == 2        \* items an LLM response may carry
MaxUpdates == 2      \* update_confidence calls on the instance under study
MaxEntries == 2      \* entries the "results" mapping of an OCR answer may hold
MaxLines == 3        \* lines of a text handed to a heuristic

\* Denominator of every confidence value: thirds, fifths, halves and tenths.
Scale == 3 * 4 * 5

\* ------------------------------------------------------- python primitives
Whitespace == {" ", "\t", "\n", "\r"}
Digits == {"0", "1", "2", "3", "4", "5", "6", "7", "8", "9"}

RECURSIVE LStripSet(_, _)
LStripSet(s, chars) ==
    IF s # <<>> /\ Head(s) \in chars THEN LStripSet(Tail(s), chars) ELSE s

RECURSIVE RStripSet(_, _)
RStripSet(s, chars) ==
    IF s # <<>> /\ s[Len(s)] \in chars
    THEN RStripSet(SubSeq(s, 1, Len(s) - 1), chars)
    ELSE s

\* str.strip()
Strip(s) == RStripSet(LStripSet(s, Whitespace), Whitespace)

\* A field value: None, a str, a float (numerator over Scale) or a list of
\* keywords (each keyword named by a string).
None == [t |-> "none", s |-> <<>>, n |-> 0]
Str(s) == [t |-> "str", s |-> s, n |-> 0]
Float(n) == [t |-> "float", s |-> <<>>, n |-> n]
List(l) == [t |-> "list", s |-> l, n |-> 0]

\* repr of a float: digits around a point, never empty, never blank.
FloatRepr(n) ==
    IF n = 0 THEN <<"0", ".", "0">>
    ELSE IF n = Scale THEN <<"1", ".", "0">>
    ELSE <<"0", ".", "d">>

RECURSIVE JoinItems(_)
JoinItems(l) ==
    IF l = <<>> THEN <<>>
    ELSE IF Len(l) = 1 THEN <<"'", l[1], "'">>
    ELSE <<"'", l[1], "'", ",", " ">> \o JoinItems(Tail(l))

\* str(value)
PyStr(v) ==
    CASE v.t = "none" -> <<"N", "o", "n", "e">>
      [] v.t = "str" -> v.s
      [] v.t = "float" -> FloatRepr(v.n)
      [] v.t = "list" -> <<"[">> \o JoinItems(v.s) \o <<"]">>

\* bool(value): the truth value of an Optional[str] field
Truthy(v) ==
    CASE v.t = "none" -> FALSE
      [] v.t = "str" -> v.s # <<>>
      [] v.t = "float" -> v.n # 0
      [] v.t = "list" -> v.s # <<>>

\* --------------------------------------------------------------- schemas
BuiltinSchemas == {"Person", "Sentiment", "CompanyInfo", "ProductInfo", "ContactInfo"}

\* BadgePerson is a user-defined schema that declares the identifier of
\* Person and a required field of its own.
Schemas == BuiltinSchemas \cup {"MenuInfo", "BadgePerson"}

get_extraction_type(cls) ==
    CASE cls = "Person" -> "person"
      [] cls = "Sentiment" -> "sentiment"
      [] cls = "CompanyInfo" -> "company_info"
      [] cls = "ProductInfo" -> "product_info"
      [] cls = "ContactInfo" -> "contact_info"
      [] cls = "MenuInfo" -> "menu_info"
      [] cls = "BadgePerson" -> "person"

\* __fields__ without the inherited confidence field, in declaration order
Fields(cls) ==
    CASE cls = "Person" -> <<"full_name", "job_title", "company_name">>
      [] cls = "Sentiment" -> <<"sentiment", "confidence_score", "keywords">>
      [] cls = "CompanyInfo" -> <<"company_name", "industry", "address", "phone", "email">>
      [] cls = "ProductInfo" -> <<"product_name", "price", "description", "brand", "category">>
      [] cls = "ContactInfo" -> <<"name", "phone", "email", "address", "wechat">>
      [] cls = "MenuInfo" -> <<"dish_name", "price", "description", "category", "spicy_level">>
      [] cls = "BadgePerson" -> <<"full_name", "badge_id">>

FieldSet(cls) == {Fields(cls)[i] : i \in 1..Len(Fields(cls))}

\* Fields a constructor call must supply (declared without a default).
RequiredFields(cls) == IF cls = "BadgePerson" THEN {"badge_id"} ELSE {}

\* The declared default of a field.
FieldDefault(cls, name) ==
    IF cls = "Sentiment" /\ name = "confidence_score" THEN Float(0) ELSE None

\* model_class(**kwargs): kwargs is a function from some field names to
\* values; undeclared names are ignored, missing ones take their default.
Construct(cls, kwargs) ==
    [cls |-> cls,
     f |-> [name \in FieldSet(cls) |->
              IF name \in DOMAIN kwargs THEN kwargs[name] ELSE FieldDefault(cls, name)],
     confidence |-> 0,
     updates |-> 0]

\* Whether model_class(**kwargs) validates.
Constructible(cls, kwargs) == RequiredFields(cls) \subseteq DOMAIN kwargs

\* ------------------------------------------------------------ confidence
\* `value is not None and str(value).strip()`
FieldFilled(v) == v.t # "none" /\ Strip(PyStr(v)) # <<>>

filled_fields(x) == Cardinality({name \in FieldSet(x.cls) : FieldFilled(x.f[name])})

total_fields(x) == Len(Fields(x.cls))

Min(a, b) == IF a <= b THEN a ELSE b

\* BaseExtractionModel.calculate_confidence
Base_calculate_confidence(x) ==
    IF total_fields(x) > 0 THEN (filled_fields(x) * Scale) \div total_fields(x) ELSE 0

\* Sentiment.calculate_confidence
Sentiment_calculate_confidence(x) ==
    (Base_calculate_confidence(x) + x.f["confidence_score"].n) \div 2

\* MenuInfo.calculate_confidence
MenuInfo_calculate_confidence(x) ==
    IF Truthy(x.f["dish_name"]) /\ Truthy(x.f["price"])
    THEN Min(Scale, Base_calculate_confidence(x) + Scale \div 5)
    ELSE Base_calculate_confidence(x)

\* x.calculate_confidence(), dispatched on the class of x
calculate_confidence(x) ==
    CASE x.cls = "Sentiment" -> Sentiment_calculate_confidence(x)
      [] x.cls = "MenuInfo" -> MenuInfo_calculate_confidence(x)
      [] OTHER -> Base_calculate_confidence(x)

\* x.update_confidence(); updates counts the invocations on x
update_confidence(x) ==
    [x EXCEPT !.confidence = calculate_confidence(x), !.updates = @ + 1]

\* ------------------------------------------------------ string operations
Uppers == <<"A", "B", "C", "D", "E", "F", "G", "H", "I", "J", "K", "L", "M",
            "N", "O", "P", "Q", "R", "S", "T", "U", "V", "W", "X", "Y", "Z">>
Lowers == <<"a", "b", "c", "d", "e", "f", "g", "h", "i", "j", "k", "l", "m",
            "n", "o", "p", "q", "r", "s", "t", "u", "v", "w", "x", "y", "z">>

LowerChar(c) ==
    IF \E i \in 1..Len(Uppers) : Uppers[i] = c
    THEN Lowers[CHOOSE i \in 1..Len(Uppers) : Uppers[i] = c]
    ELSE c

\* str.lower()
Lower(s) == [i \in 1..Len(s) |-> LowerChar(s[i])]

\* `w in s` for strings
Contains(s, w) ==
    \E i \in 1..(Len(s) - Len(w) + 1) : SubSeq(s, i, i + Len(w) - 1) = w

\* any(w in s for w in words)
ContainsAny(s, words) == \E k \in 1..Len(words) : Contains(s, words[k])

RECURSIVE SplitRec(_, _, _)
SplitRec(s, seps, cur) ==
    IF s = <<>> THEN <<cur>>
    ELSE IF Head(s) \in seps THEN <<cur>> \o SplitRec(Tail(s), seps, <<>>)
    ELSE SplitRec(Tail(s), seps, Append(cur, Head(s)))

\* str.split('\n')
Split(s) == SplitRec(s, {"\n"}, <<>>)

\* str.splitlines(): breaks at line boundaries, no empty last line
SplitLines(s) ==
    LET parts == SplitRec(s, {"\n", "\r"}, <<>>)
    IN IF parts[Len(parts)] = <<>> THEN SubSeq(parts, 1, Len(parts) - 1) ELSE parts

IsNonBlank(l) == Strip(l) # <<>>

\* [ln.strip() for ln in lines if ln.strip()]
StrippedNonBlank(lines) ==
    LET kept == SelectSeq(lines, IsNonBlank)
    IN [i \in 1..Len(kept) |-> Strip(kept[i])]

\* `not text or not text.strip()`
IsBlankText(text) == text = <<>> \/ Strip(text) = <<>>

\* re.search of a pattern given by lens, its match length at each position
\* of s (0: no match there): the leftmost position that matches, 0 when none
\* does.
SearchPos(s, lens) ==
    IF \E i \in 1..Len(s) : lens[i] > 0
    THEN CHOOSE i \in 1..Len(s) : lens[i] > 0 /\ \A j \in 1..(i - 1) : lens[j] = 0
    ELSE 0

\* match.group() of re.search
SearchGroup(s, lens) ==
    LET i == SearchPos(s, lens) IN SubSeq(s, i, i + lens[i] - 1)

\* Length of the longest run of characters of `chars` starting at s[i].
RECURSIVE RunLen(_, _, _)
RunLen(s, i, chars) ==
    IF i <= Len(s) /\ s[i] \in chars THEN 1 + RunLen(s, i + 1, chars) ELSE 0

\* ------------------------------------------------ heuristic fallback rules
\* line.strip() alone: the markup stays
StripMarkup_kept(line) == Strip(line)

\* line.lstrip("#").strip()
StripMarkup(line) == Strip(LStripSet(line, {"#"}))

\* LangChainExtractor._heuristic_person_extraction, without the constructor
person_kwargs(lines) ==
    [name \in {"full_name", "job_title", "company_name"} |->
        CASE name = "full_name" ->
                IF Len(lines) >= 1 THEN Str(StripMarkup(lines[1])) ELSE None
          [] name = "job_title" ->
                IF Len(lines) >= 2 THEN Str(StripMarkup(lines[2])) ELSE None
          [] name = "company_name" ->
                IF Len(lines) >= 3 THEN Str(StripMarkup(lines[3])) ELSE None]

\* The result of a heuristic: the items, or the exception it raised.
Items(items) == [exc |-> FALSE, items |-> items]
Raised == [exc |-> TRUE, items |-> <<>>]

\* [model_class(**kwargs)], or the ValidationError of the constructor
Built(cls, kwargs) ==
    IF Constructible(cls, kwargs) THEN Items(<<Construct(cls, kwargs)>>) ELSE Raised

\* LangChainExtractor._heuristic_person_extraction
heuristic_person_extraction(lines, cls) ==
    IF lines = <<>> THEN Items(<<>>) ELSE Built(cls, person_kwargs(lines))

\* The characters of a keyword of the sentiment lists.
KwChars(w) ==
    CASE w = "<hao>" -> <<"<hao>">>
      [] w = "<bang>" -> <<"<bang>">>
      [] w = "<youxiu>" -> <<"<you>", "<xiu>">>
      [] w = "<manyi>" -> <<"<man>", "<yi>">>
      [] w = "<xihuan>" -> <<"<xi>", "<huan>">>
      [] w = "<tuijian>" -> <<"<tui>", "<jian>">>
      [] w = "excellent" -> <<"e", "x", "c", "e", "l", "l", "e", "n", "t">>
      [] w = "good" -> <<"g", "o", "o", "d">>
      [] w = "great" -> <<"g", "r", "e", "a", "t">>
      [] w = "awesome" -> <<"a", "w", "e", "s", "o", "m", "e">>
      [] w = "<cha>" -> <<"<cha>">>
      [] w = "<huai>" -> <<"<huai>">>
      [] w = "<zaogao>" -> <<"<zao>", "<gao>">>
      [] w = "<shiwang>" -> <<"<shi>", "<wang>">>
      [] w = "<buman>" -> <<"<bu>", "<man>">>
      [] w = "<taoyan>" -> <<"<tao>", "<yan>">>
      [] w = "bad" -> <<"b", "a", "d">>
      [] w = "terrible" -> <<"t", "e", "r", "r", "i", "b", "l", "e">>
      [] w = "awful" -> <<"a", "w", "f", "u", "l">>
      [] w = "poor" -> <<"p", "o", "o", "r">>

positive_words == <<"<hao>", "<bang>", "<youxiu>", "<manyi>", "<xihuan>", "<tuijian>",
                    "excellent", "good", "great", "awesome">>
negative_words == <<"<cha>", "<huai>", "<zaogao>", "<shiwang>", "<buman>", "<taoyan>",
                    "bad", "terrible", "awful", "poor">>

IsMatchedIn(text_lower, w) == Contains(text_lower, KwChars(w))

\* [word for word in words if word in text_lower]
MatchedWords(words, text_lower) ==
    LET Hit(w) == IsMatchedIn(text_lower, w) IN SelectSeq(words, Hit)

\* keywords[:5]
FirstFive(l) == SubSeq(l, 1, Min(5, Len(l)))

\* count * 0.2 without the cap of 0.8
DecidedScore_uncapped(count) == count * (Scale \div 5)

\* min(0.8, count * 0.2) as a numerator over Scale
DecidedScore(count) == Min((4 * Scale) \div 5, count * (Scale \div 5))

\* The if/elif/else of _heuristic_sentiment_extraction and the keyword
\* arguments of the constructor call that ends it
sentiment_decide(positive_count, negative_count, keywords) ==
    [name \in {"sentiment", "confidence_score", "keywords"} |->
        CASE name = "sentiment" ->
                IF positive_count > negative_count
                THEN Str(<<"p", "o", "s", "i", "t", "i", "v", "e">>)
                ELSE IF negative_count > positive_count
                THEN Str(<<"n", "e", "g", "a", "t", "i", "v", "e">>)
                ELSE Str(<<"n", "e", "u", "t", "r", "a", "l">>)
          [] name = "confidence_score" ->
                IF positive_count > negative_count
                THEN Float(DecidedScore(positive_count))
                ELSE IF negative_count > positive_count
                THEN Float(DecidedScore(negative_count))
                ELSE Float(Scale \div 2)
          [] name = "keywords" -> List(FirstFive(keywords))]

\* A keyword scan that reads the negative list before the positive one
sentiment_count_negative_first(text_lower) ==
    sentiment_decide(Len(MatchedWords(positive_words, text_lower)),
                     Len(MatchedWords(negative_words, text_lower)),
                     MatchedWords(negative_words \o positive_words, text_lower))

\* positive_count, negative_count and keywords of the lowered text
sentiment_count(text_lower) ==
    sentiment_decide(Len(MatchedWords(positive_words, text_lower)),
                     Len(MatchedWords(negative_words, text_lower)),
                     MatchedWords(positive_words \o negative_words, text_lower))

\* LangChainExtractor._heuristic_sentiment_extraction, without the constructor
sentiment_kwargs(text) == sentiment_count(Lower(text))

\* LangChainExtractor._heuristic_sentiment_extraction
heuristic_sentiment_extraction(text, cls) == Built(cls, sentiment_kwargs(text))

\* obj.name = value
SetAttr(x, name, v) == [x EXCEPT !.f[name] = v]

company_suffixes == <<<<"i", "n", "c">>, <<"c", "o", "r", "p">>, <<"l", "l", "c">>,
                      <<"c", "o">>, <<"l", "t", "d">>, <<"<gong>", "<si>">>,
                      <<"<have>", "<xian>">>>>
phone_keywords == <<<<"t", "e", "l">>, <<"<dian>", "<hua>">>, <<"p", "h", "o", "n", "e">>>>
currency_symbols == <<<<"<yen>">>, <<"$">>, <<"<fwyen>">>, <<"<yuan>">>,
                      <<"U", "S", "D">>, <<"C", "N", "Y">>>>

\* The pattern [\d\-\(\)\+\s]+ : a longest run of phone characters
PhoneChars == Digits \cup {"-", "(", ")", "+"} \cup Whitespace
PhoneMatchLen(s, i) == RunLen(s, i, PhoneChars)
PhoneLens(s) == [i \in 1..Len(s) |-> PhoneMatchLen(s, i)]

\* An iteration that tests '@' before the suffixes and the phone keywords
company_line_at_first(x, line) ==
    IF Contains(line, <<"@">>)
    THEN SetAttr(x, "email", Str(line))
    ELSE IF ContainsAny(Lower(line), company_suffixes)
    THEN SetAttr(x, "company_name", Str(line))
    ELSE IF ContainsAny(Lower(line), phone_keywords)
    THEN IF SearchPos(line, PhoneLens(line)) > 0
         THEN SetAttr(x, "phone", Str(Strip(SearchGroup(line, PhoneLens(line)))))
         ELSE x
    ELSE x

\* One iteration of the loop of _heuristic_company_extraction
company_line(x, line) ==
    IF ContainsAny(Lower(line), company_suffixes)
    THEN SetAttr(x, "company_name", Str(line))
    ELSE IF ContainsAny(Lower(line), phone_keywords)
    THEN IF SearchPos(line, PhoneLens(line)) > 0
         THEN SetAttr(x, "phone", Str(Strip(SearchGroup(line, PhoneLens(line)))))
         ELSE x
    ELSE IF Contains(line, <<"@">>)
    THEN SetAttr(x, "email", Str(line))
    ELSE x

\* One iteration of the loop of _heuristic_product_extraction
product_line(x, line) ==
    IF ContainsAny(line, currency_symbols)
    THEN SetAttr(x, "price", Str(line))
    ELSE IF ~Truthy(x.f["product_name"]) /\ Len(line) > 2
    THEN SetAttr(x, "product_name", Str(line))
    ELSE x

\* One iteration of the loop of _heuristic_contact_extraction
contact_line(x, line) ==
    IF Contains(line, <<"@">>)
    THEN SetAttr(x, "email", Str(line))
    ELSE IF ContainsAny(Lower(line), phone_keywords)
    THEN IF SearchPos(line, PhoneLens(line)) > 0
         THEN SetAttr(x, "phone", Str(Strip(SearchGroup(line, PhoneLens(line)))))
         ELSE x
    ELSE IF ~Truthy(x.f["name"]) /\ Len(line) > 1
    THEN SetAttr(x, "name", Str(line))
    ELSE x

\* The loops `for line in lines:` of the three heuristics
RECURSIVE company_scan(_, _)
company_scan(x, lines) ==
    IF lines = <<>> THEN x ELSE company_scan(company_line(x, Head(lines)), Tail(lines))

RECURSIVE product_scan(_, _)
product_scan(x, lines) ==
    IF lines = <<>> THEN x ELSE product_scan(product_line(x, Head(lines)), Tail(lines))

RECURSIVE contact_scan(_, _)
contact_scan(x, lines) ==
    IF lines = <<>> THEN x ELSE contact_scan(contact_line(x, Head(lines)), Tail(lines))

\* A company heuristic that returns nothing when no line matched a rule
OnlyIfFilled(x, empty) == IF x = empty THEN Items(<<>>) ELSE Items(<<x>>)
heuristic_company_extraction_if_matched(lines, cls) ==
    IF Constructible(cls, <<>>)
    THEN OnlyIfFilled(company_scan(Construct(cls, <<>>), lines), Construct(cls, <<>>))
    ELSE Raised

\* LangChainExtractor._heuristic_company_extraction
heuristic_company_extraction(lines, cls) ==
    IF Constructible(cls, <<>>)
    THEN Items(<<company_scan(Construct(cls, <<>>), lines)>>)
    ELSE Raised

\* LangChainExtractor._heuristic_product_extraction
heuristic_product_extraction(lines, cls) ==
    IF Constructible(cls, <<>>)
    THEN Items(<<product_scan(Construct(cls, <<>>), lines)>>)
    ELSE Raised

\* LangChainExtractor._heuristic_contact_extraction
heuristic_contact_extraction(lines, cls) ==
    IF Constructible(cls, <<>>)
    THEN Items(<<contact_scan(Construct(cls, <<>>), lines)>>)
    ELSE Raised

\* LangChainExtractor._heuristic_extraction
heuristic_extraction(text, extraction_type, cls) ==
    LET lines == StrippedNonBlank(SplitLines(text))
    IN CASE extraction_type = "person" -> heuristic_person_extraction(lines, cls)
         [] extraction_type = "sentiment" -> heuristic_sentiment_extraction(text, cls)
         [] extraction_type = "company_info" -> heuristic_company_extraction(lines, cls)
         [] extraction_type = "product_info" -> heuristic_product_extraction(lines, cls)
         [] extraction_type = "contact_info" -> heuristic_contact_extraction(lines, cls)
         [] OTHER -> Items(<<>>)

\* ------------------------------------------------- SimpleRegexExtractor
At(s, i) == IF i \in 1..Len(s) THEN s[i] ELSE "<end>"

\* (?:\.\d{2})? at position i: 3 characters or none
FracLen(s, i) ==
    IF At(s, i) = "." /\ At(s, i + 1) \in Digits /\ At(s, i + 2) \in Digits THEN 3 ELSE 0

\* [<yen>$<fwyen>]\s*\d+(?:\.\d{2})?  |  \d+(?:\.\d{2})?\s*[<yuan><kuai>]
PriceMatchLen(s, i) ==
    LET ws1 == RunLen(s, i + 1, Whitespace)
        d1 == RunLen(s, i + 1 + ws1, Digits)
        d2 == RunLen(s, i, Digits)
        f2 == FracLen(s, i + d2)
        ws2 == RunLen(s, i + d2 + f2, Whitespace)
    IN IF At(s, i) \in {"<yen>", "$", "<fwyen>"} /\ d1 > 0
       THEN 1 + ws1 + d1 + FracLen(s, i + 1 + ws1 + d1)
       ELSE IF d2 > 0 /\ At(s, i + d2 + f2 + ws2) \in {"<yuan>", "<kuai>"}
       THEN d2 + f2 + ws2 + 1
       ELSE 0

\* [<bu><wu>]?<la> | <wei><la> | <zhong><la> | <te><la> | <bian><tai><la>
SpicyMatchLen(s, i) ==
    IF At(s, i) \in {"<bu>", "<wu>"} /\ At(s, i + 1) = "<la>" THEN 2
    ELSE IF At(s, i) = "<la>" THEN 1
    ELSE IF At(s, i) \in {"<wei>", "<zhong>", "<te>"} /\ At(s, i + 1) = "<la>" THEN 2
    ELSE IF At(s, i) = "<bian>" /\ At(s, i + 1) = "<tai>" /\ At(s, i + 2) = "<la>" THEN 3
    ELSE 0

PriceLens(s) == [i \in 1..Len(s) |-> PriceMatchLen(s, i)]
SpicyLens(s) == [i \in 1..Len(s) |-> SpicyMatchLen(s, i)]

menu_fields == {"dish_name", "price", "description", "spicy_level"}

\* The four `if`s of one iteration of the loop of
\* SimpleRegexExtractor._extract_menu_info over its local variables
\* dish_name, price, description and spicy_level
menu_update(loc, line, price_match, spicy_match, name_here) ==
    [name \in menu_fields |->
        CASE name = "price" ->
                IF price_match /\ ~Truthy(loc["price"])
                THEN Str(SearchGroup(line, PriceLens(line))) ELSE loc["price"]
          [] name = "spicy_level" ->
                IF spicy_match
                THEN Str(SearchGroup(line, SpicyLens(line))) ELSE loc["spicy_level"]
          [] name = "dish_name" -> IF name_here THEN Str(line) ELSE loc["dish_name"]
          [] name = "description" ->
                IF ~name_here /\ Truthy(loc["dish_name"])
                   /\ ~Truthy(loc["description"]) /\ Len(line) > 5
                THEN Str(line) ELSE loc["description"]]

\* price_match and spicy_match of one iteration
menu_matched(loc, line, price_match, spicy_match) ==
    menu_update(loc, line, price_match, spicy_match,
                ~price_match /\ ~Truthy(loc["dish_name"]) /\ Len(line) > 2)

\* One iteration of the loop of SimpleRegexExtractor._extract_menu_info
menu_line(loc, line) ==
    menu_matched(loc, line, SearchPos(line, PriceLens(line)) > 0,
                 SearchPos(line, SpicyLens(line)) > 0)

\* The loop `for line in lines:` of _extract_menu_info
RECURSIVE menu_scan(_, _)
menu_scan(loc, lines) ==
    IF lines = <<>> THEN loc ELSE menu_scan(menu_line(loc, Head(lines)), Tail(lines))

\* SimpleRegexExtractor._extract_menu_info
extract_menu_info(text, cls) ==
    <<Construct(cls, menu_scan([name \in menu_fields |-> None],
                               StrippedNonBlank(Split(text))))>>

\* What a strategy's extract hands to its caller: outcome is "returned" or
\* "raised", fault names the statement that raised inside ("none": nothing
\* raised), llm_calls counts the LLM invocations and path names the branch.
SimpleRegex_extract(text, cls) ==
    [outcome |-> "returned",
     result |-> IF cls = "MenuInfo" THEN extract_menu_info(text, cls) ELSE <<>>,
     llm_calls |-> 0, path |-> "regex", fault |-> "none"]

\* SimpleRegexExtractor.supports_model
SimpleRegex_supports_model(cls) == cls = "MenuInfo"

\* --------------------------------------------------- LangChainExtractor
\* The value of LLM_API_KEY in the environment: None when the variable is
\* absent, otherwise its (possibly empty) string.
EnvValues == {None, Str(<<>>), Str(<<"s", "k">>)}

\* os.getenv(name, default)
getenv(env, default) == IF env.t = "none" THEN Str(default) ELSE env

\* LangChainExtractor._init_llm: whether self.llm is a client (not None)
init_llm(env) ==
    LET llm_api_key == getenv(env, <<"f", "a", "k", "e", "_", "k", "e", "y">>)
    IN Truthy(llm_api_key)

\* LangChainExtractor(): env records the environment it was built in
LangChainExtractor(env) ==
    [cls |-> "LangChainExtractor", env |-> env, llm |-> init_llm(env)]

\* SimpleRegexExtractor(): reads no environment and holds no LLM client
SimpleRegexExtractor == [cls |-> "SimpleRegexExtractor", env |-> None, llm |-> FALSE]

\* keys of LangChainExtractor.system_prompts
system_prompts == {"person", "sentiment", "company_info", "product_info", "contact_info"}

\* LangChainExtractor.supports_model
LangChain_supports_model(cls) == get_extraction_type(cls) \in system_prompts

\* What the structured LLM call does: raises ("error", a failed call or an
\* output that does not parse), returns nothing ("none"), or returns a list
\* model whose items are instances of the schema.
SampleValue(cls, name) ==
    CASE name = "confidence_score" -> Float((4 * Scale) \div 5)
      [] name = "keywords" -> List(<<"good">>)
      [] OTHER -> Str(<<"x">>)

\* An item the LLM left empty, and one it filled, confidence included.
EmptyItem(cls) == Construct(cls, [name \in RequiredFields(cls) |-> SampleValue(cls, name)])
FullItem(cls) ==
    [Construct(cls, [name \in FieldSet(cls) |-> SampleValue(cls, name)])
        EXCEPT !.confidence = Scale \div 2]

SeqsUpTo(S, n) == UNION {[1..k -> S] : k \in 0..n}

LLMError == [kind |-> "error", items |-> <<>>]
LLMResponses(cls) ==
    {LLMError, [kind |-> "none", items |-> <<>>]}
    \cup {[kind |-> "items", items |-> l] :
            l \in SeqsUpTo({EmptyItem(cls), FullItem(cls)}, MaxItems)}

\* `for item in items: item.update_confidence()`; the call on item failAt
\* raises (failAt = 0: none does)
UpdateAll(items, failAt) ==
    IF failAt \in 1..Len(items) THEN Raised
    ELSE Items([i \in 1..Len(items) |-> update_confidence(items[i])])

\* How the try block of LangChainExtractor.extract ends once `found` is what
\* produced its items and `done` what the update loop made of them; why
\* names the statement that raised ("none": no exception)
TryEnd(found, done, llm_calls, path) ==
    [exc |-> done.exc,
     why |-> IF found.exc THEN "construct" ELSE IF done.exc THEN "update" ELSE "none",
     items |-> done.items, llm_calls |-> llm_calls, path |-> path]

\* The update loop over the items of `found`, unless `found` raised
UpdateFound(found, failAt, llm_calls, path) ==
    TryEnd(found, IF found.exc THEN Raised ELSE UpdateAll(found.items, failAt),
           llm_calls, path)

\* The body of the try block of LangChainExtractor.extract
LangChain_try(ext, text, cls, llm, failAt) ==
    IF IsBlankText(text)
    THEN [exc |-> FALSE, why |-> "none", items |-> <<>>, llm_calls |-> 0, path |-> "blank"]
    ELSE IF ext.llm
    THEN IF llm.kind = "error"
         THEN [exc |-> TRUE, why |-> "llm", items |-> <<>>, llm_calls |-> 1, path |-> "llm"]
         ELSE UpdateFound(Items(IF llm.kind = "none" THEN <<>> ELSE llm.items),
                          failAt, 1, "llm")
    ELSE UpdateFound(heuristic_extraction(text, get_extraction_type(cls), cls),
                     failAt, 0, "heuristic")

\* What leaves an extract whose try block ended as `body` when no clause
\* catches the exception
Uncaught(body) ==
    [outcome |-> IF body.exc THEN "raised" ELSE "returned",
     result |-> IF body.exc THEN <<>> ELSE body.items,
     llm_calls |-> body.llm_calls, path |-> body.path, fault |-> body.why]

\* An extract without the `except Exception` clause: the exception leaves it
LangChain_extract_uncaught(ext, text, cls, llm, failAt) ==
    Uncaught(LangChain_try(ext, text, cls, llm, failAt))

\* `except Exception as e: ... return []` around the try block
Caught(body) ==
    [outcome |-> "returned",
     result |-> IF body.exc THEN <<>> ELSE body.items,
     llm_calls |-> body.llm_calls, path |-> body.path, fault |-> body.why]

\* LangChainExtractor.extract
LangChain_extract(ext, text, cls, llm, failAt) ==
    Caught(LangChain_try(ext, text, cls, llm, failAt))

\* extractor.supports_model(model_class)
supports_model(ext, cls) ==
    IF ext.cls = "LangChainExtractor"
    THEN LangChain_supports_model(cls)
    ELSE SimpleRegex_supports_model(cls)

\* extractor.extract(text, model_class)
Extractor_extract(ext, text, cls, llm, failAt) ==
    IF ext.cls = "LangChainExtractor"
    THEN LangChain_extract(ext, text, cls, llm, failAt)
    ELSE SimpleRegex_extract(text, cls)

\* -------------------------------------------------------------- registry
\* The identifier -> schema dict is a sequence of entries in insertion
\* order; "None" is the absent schema.
Keys(ms) == {ms[i].id : i \in 1..Len(ms)}

\* d.setdefault(k, v) in place of d[k] = v: the first schema stays
DictSet_keep_first(ms, k, v) ==
    IF k \in Keys(ms) THEN ms ELSE Append(ms, [id |-> k, cls |-> v])

\* d[k] = v
DictSet(ms, k, v) ==
    IF k \in Keys(ms)
    THEN [i \in 1..Len(ms) |-> IF ms[i].id = k THEN [id |-> k, cls |-> v] ELSE ms[i]]
    ELSE Append(ms, [id |-> k, cls |-> v])

\* d.get(k)
DictGet(ms, k) ==
    IF k \in Keys(ms) THEN ms[CHOOSE i \in 1..Len(ms) : ms[i].id = k].cls ELSE "None"

\* ExtractorRegistry.register_model
register_model(ms, cls) == DictSet(ms, get_extraction_type(cls), cls)

\* insert(0, ext) in place of append(ext)
register_extractor_front(exts, ext) == <<ext>> \o exts

\* ExtractorRegistry.register_extractor
register_extractor(exts, ext) == Append(exts, ext)

\* A lookup that falls back to the first registered schema
get_model_class_fallback(ms, extraction_type) ==
    IF extraction_type \in Keys(ms) THEN DictGet(ms, extraction_type)
    ELSE IF ms # <<>> THEN ms[1].cls
    ELSE "None"

\* ExtractorRegistry.get_model_class
get_model_class(ms, extraction_type) == DictGet(ms, extraction_type)

get_description(cls) == <<"description of", cls>>

\* ExtractorRegistry.get_supported_types
get_supported_types(ms) ==
    [i \in 1..Len(ms) |-> [type |-> ms[i].id, description |-> get_description(ms[i].cls)]]

\* A scan that keeps the last match instead of returning the first
find_extractor_last(exts, cls) ==
    IF \E i \in 1..Len(exts) : supports_model(exts[i], cls)
    THEN CHOOSE i \in 1..Len(exts) :
            supports_model(exts[i], cls)
            /\ \A j \in (i + 1)..Len(exts) : ~supports_model(exts[j], cls)
    ELSE 0

\* ExtractorRegistry.find_extractor: the position of the strategy returned,
\* 0 for None
find_extractor(exts, cls) ==
    IF \E i \in 1..Len(exts) : supports_model(exts[i], cls)
    THEN CHOOSE i \in 1..Len(exts) :
            supports_model(exts[i], cls)
            /\ \A j \in 1..(i - 1) : ~supports_model(exts[j], cls)
    ELSE 0

\* The observation of the call on the registry that has just run; NoCall
\* between calls.
NoCall ==
    [op |-> "none", text |-> <<>>, id |-> "", cls |-> "None", outcome |-> "none",
     result |-> <<>>, handed |-> <<>>, used |-> <<>>, llm_calls |-> 0, path |-> "none",
     fault |-> "none", prev |-> "None", ret_idx |-> 0, ret_types |-> <<>>]

IsScored(x) == x.confidence > 0

\* The observation of an extract call on `text` and `extraction_type` that
\* resolved the schema `model_class`
Extracting(text, extraction_type, model_class) ==
    [NoCall EXCEPT !.op = "extract", !.text = text,
                   !.id = extraction_type, !.cls = model_class]

\* A delegation that drops the items of confidence 0 from what the strategy
\* returned
Delegated_filtering(base, k, r) ==
    [base EXCEPT !.outcome = r.outcome, !.result = SelectSeq(r.result, IsScored),
                 !.handed = r.result, !.used = <<k>>,
                 !.llm_calls = r.llm_calls, !.path = r.path, !.fault = r.fault]

\* `return extractor.extract(text, model_class)`: r is what strategy k did
Delegated(base, k, r) ==
    [base EXCEPT !.outcome = r.outcome, !.result = r.result,
                 !.handed = r.result, !.used = <<k>>,
                 !.llm_calls = r.llm_calls, !.path = r.path, !.fault = r.fault]

\* The two lookups of ExtractorRegistry.extract done (k = 0: no strategy)
Registry_extract_found_filtering(exts, text, extraction_type, model_class, k, llm, failAt) ==
    IF model_class = "None"
    THEN [Extracting(text, extraction_type, model_class) EXCEPT !.outcome = "unsupported"]
    ELSE IF k = 0
    THEN [Extracting(text, extraction_type, model_class) EXCEPT !.outcome = "no_extractor"]
    ELSE Delegated_filtering(Extracting(text, extraction_type, model_class), k,
                             Extractor_extract(exts[k], text, model_class, llm, failAt))

Registry_extract_found(exts, text, extraction_type, model_class, k, llm, failAt) ==
    IF model_class = "None"
    THEN [Extracting(text, extraction_type, model_class) EXCEPT !.outcome = "unsupported"]
    ELSE IF k = 0
    THEN [Extracting(text, extraction_type, model_class) EXCEPT !.outcome = "no_extractor"]
    ELSE Delegated(Extracting(text, extraction_type, model_class), k,
                   Extractor_extract(exts[k], text, model_class, llm, failAt))

\* An extract that drops the items of confidence 0 from what the strategy
\* returned
Registry_extract_filtering(ms, exts, text, extraction_type, llm, failAt) ==
    Registry_extract_found_filtering(
        exts, text, extraction_type, get_model_class(ms, extraction_type),
        find_extractor(exts, get_model_class(ms, extraction_type)), llm, failAt)

\* ExtractorRegistry.extract: outcome "unsupported" and "no_extractor" are
\* its two ValueErrors; used lists the strategies whose extract it called and
\* handed is the list the strategy returned to it.
Registry_extract(ms, exts, text, extraction_type, llm, failAt) ==
    Registry_extract_found(
        exts, text, extraction_type, get_model_class(ms, extraction_type),
        find_extractor(exts, get_model_class(ms, extraction_type)), llm, failAt)

\* ------------------------------------------------------------ OCR client
\* A value of the "results" mapping of the OCR service's JSON answer: dict
\* tells whether it is a JSON object, has_md whether it has the key
\* "md_content", md the value under that key.
ResultEntry(dict, has_md, md) == [dict |-> dict, has_md |-> has_md, md |-> md]

\* The parsed JSON body: obj tells whether it is a JSON object; results is
\* "absent" (no such key), "falsy" ({}, [], null, 0, ""), "other" (a truthy
\* value that is no object, such as a non-empty list) or "mapping" (a
\* non-empty object whose values, in order, are entries).
ApiResponse(obj, results, entries) ==
    [obj |-> obj, results |-> results, entries |-> entries]

\* `isinstance(value, dict) and "md_content" in value`
HasMd(value) == value.dict /\ value.has_md

\* A loop that keeps the last md_content it sees
last_md(entries) ==
    IF \E i \in 1..Len(entries) : HasMd(entries[i])
    THEN CHOOSE i \in 1..Len(entries) :
            HasMd(entries[i]) /\ \A j \in (i + 1)..Len(entries) : ~HasMd(entries[j])
    ELSE 0

\* The position of the value the loop of _extract_md_content returns at, 0
\* when the loop runs to its end
first_md(entries) ==
    IF \E i \in 1..Len(entries) : HasMd(entries[i])
    THEN CHOOSE i \in 1..Len(entries) :
            HasMd(entries[i]) /\ \A j \in 1..(i - 1) : ~HasMd(entries[j])
    ELSE 0

\* How a try block of the client ends: exc tells whether it raised, ret is
\* the value it returned, posts the requests sent to the OCR service, fault
\* the statement that ended it without text ("none": text was found)
TryResult(exc, ret, posts, fault) ==
    [exc |-> exc, ret |-> ret, posts |-> posts, fault |-> fault]

\* `return value["md_content"]` for the value at position i
md_at(entries, i) ==
    IF i = 0 THEN TryResult(FALSE, None, 0, "no_md")
    ELSE TryResult(FALSE, entries[i].md, 0, "none")

\* The try block of OCRClient._extract_md_content: .get on a body that is
\* no object and .items() on results that are no object raise
md_try(api_response) ==
    IF ~api_response.obj THEN TryResult(TRUE, None, 0, "shape")
    ELSE IF api_response.results \in {"absent", "falsy"}
    THEN TryResult(FALSE, None, 0, "no_results")
    ELSE IF api_response.results = "other" THEN TryResult(TRUE, None, 0, "shape")
    ELSE md_at(api_response.entries, first_md(api_response.entries))

\* `except Exception as e: ... return None` of either method
OcrCaught(body) ==
    [outcome |-> "returned", ret |-> IF body.exc THEN None ELSE body.ret,
     posts |-> body.posts, fault |-> body.fault]

\* OCRClient._extract_md_content
extract_md_content(api_response) == OcrCaught(md_try(api_response))

\* What the environment does to one call: path_exists is Path(...).exists(),
\* kind is "open_error" (open raises), "request_exception" (requests.post
\* raises) or "response"; a response has a status code and a body that
\* parses as JSON or does not.
Http(kind, status, parsed, json) ==
    [kind |-> kind, status |-> status, parsed |-> parsed, json |-> json]

\* `return self._extract_md_content(result)` after one request was sent
Posted(r) == TryResult(FALSE, r.ret, 1, r.fault)

\* The try block of OCRClient.extract_text_from_image
image_try(path_exists, http) ==
    IF ~path_exists THEN TryResult(FALSE, None, 0, "missing")
    ELSE IF http.kind = "open_error" THEN TryResult(TRUE, None, 0, "open")
    ELSE IF http.kind = "request_exception" THEN TryResult(TRUE, None, 1, "request")
    ELSE IF http.status # 200 THEN TryResult(FALSE, None, 1, "status")
    ELSE IF ~http.parsed THEN TryResult(TRUE, None, 1, "parse")
    ELSE Posted(extract_md_content(http.json))

\* OCRClient.extract_text_from_image
extract_text_from_image(path_exists, http) == OcrCaught(image_try(path_exists, http))

\* No OCRClient call has run
NoJson == ApiResponse(FALSE, "absent", <<>>)
NoHttp == Http("none", 0, FALSE, NoJson)
NoOcrCall ==
    [op |-> "none", path_exists |-> FALSE, http |-> NoHttp,
     outcome |-> "none", ret |-> None, posts |-> 0, fault |-> "none"]

\* The observation of extract_text_from_image(path) when it gave back r
OcrCalled(path_exists, http, r) ==
    [op |-> "extract_text_from_image", path_exists |-> path_exists, http |-> http,
     outcome |-> r.outcome, ret |-> r.ret, posts |-> r.posts, fault |-> r.fault]

\* ---------------------------------------------------------------- server
\* str.startswith(prefix)
StartsWith(s, prefix) ==
    Len(s) >= Len(prefix) /\ SubSeq(s, 1, Len(prefix)) = prefix

\* `not file.content_type or not file.content_type.startswith("image/")`
NotAnImage(content_type) ==
    ~Truthy(content_type) \/ ~StartsWith(content_type.s, <<"i", "m", "a", "g", "e", "/">>)

\* server.Person(**kwargs): the three fields of the person schema and a
\* confidence of 0.0
server_Person(kwargs) == Construct("Person", kwargs)

\* server.LangChainExtractor._calculate_confidence
server_calculate_confidence(person) ==
    (Cardinality({name \in FieldSet("Person") : Truthy(person.f[name])}) * Scale) \div 3

\* `confidence = self._calculate_confidence(result); result.confidence = confidence`
server_scored(person) ==
    [person EXCEPT !.confidence = server_calculate_confidence(person)]

\* How the try block of extract_person_info ends: exc tells whether it
\* raised, llm_calls counts the invocations of the structured LLM, fault
\* names the statement that raised ("none": no exception)
PersonResult(exc, person, llm_calls, fault) ==
    [exc |-> exc, person |-> person, llm_calls |-> llm_calls, fault |-> fault]

\* What the structured LLM does when invoked: raises ("error"), returns
\* nothing ("none") or returns a person
LLMPersonError == [kind |-> "error", person |-> server_Person(<<>>)]
LLMPersonResponses ==
    {LLMPersonError, [kind |-> "none", person |-> server_Person(<<>>)],
     [kind |-> "person", person |-> server_Person(<<>>)],
     [kind |-> "person",
      person |-> server_Person([name \in FieldSet("Person") |-> Str(<<"x">>)])]}

\* The branch `if self.structured_llm is not None:` and the confidence
\* after it; _calculate_confidence raises on a result that is None
server_invoke(llm) ==
    IF llm.kind = "error" THEN PersonResult(TRUE, server_Person(<<>>), 1, "llm")
    ELSE IF llm.kind = "none" THEN PersonResult(TRUE, server_Person(<<>>), 1, "none_result")
    ELSE PersonResult(FALSE, server_scored(llm.person), 1, "none")

\* The heuristic fallback of extract_person_info and the confidence after it
server_heuristic(text) ==
    PersonResult(FALSE,
                 server_scored(server_Person(person_kwargs(StrippedNonBlank(SplitLines(text))))),
                 0, "none")

\* The try block of server.LangChainExtractor.extract_person_info; text is
\* whatever the OCR client returned, and .strip() raises on what is no str
person_try(has_llm, text, llm) ==
    IF ~Truthy(text) THEN PersonResult(FALSE, server_Person(<<>>), 0, "none")
    ELSE IF text.t # "str" THEN PersonResult(TRUE, server_Person(<<>>), 0, "text")
    ELSE IF Strip(text.s) = <<>> THEN PersonResult(FALSE, server_Person(<<>>), 0, "none")
    ELSE IF has_llm THEN server_invoke(llm)
    ELSE server_heuristic(text.s)

\* `except Exception as e: ... return Person(confidence=0.0)`
PersonCaught(body) ==
    [outcome |-> "returned",
     person |-> IF body.exc THEN server_Person(<<>>) ELSE body.person,
     llm_calls |-> body.llm_calls, fault |-> body.fault]

\* server.LangChainExtractor.extract_person_info
extract_person_info(has_llm, text, llm) == PersonCaught(person_try(has_llm, text, llm))

\* What a request ends in: kind is "none" (no response yet), "http_error"
\* (the HTTPException of status 400), "fault" (an exception left the
\* handler) or "extraction" (an ExtractionResponse); error_message is "none"
\* for a null message.
Response(kind, success, data, error_message, ocr_text) ==
    [kind |-> kind, success |-> success, data |-> data,
     error_message |-> error_message, ocr_text |-> ocr_text]

NoResponse == Response("none", FALSE, server_Person(<<>>), "none", None)

\* ExtractionResponse(success=False, error_message=...)
Failed(error_message) ==
    Response("extraction", FALSE, server_Person(<<>>), error_message, None)

\* ExtractionResponse(success=True, data=person_info, ocr_text=ocr_text);
\* validates tells whether ocr_text passes as Optional[str], and a
\* ValidationError is caught by the handler's `except Exception`
Succeeded(person, ocr_text, validates) ==
    IF validates THEN Response("extraction", TRUE, person, "none", ocr_text)
    ELSE Failed("processing_error")

\* No request is being handled; llm tells whether the extractor created by
\* create_app holds an LLM client
NoRequest ==
    [pc |-> "idle", llm |-> FALSE, content_type |-> None, filename |-> None,
     temp |-> "none", ocr_text |-> None, posts |-> 0, ocr_fault |-> "none",
     llm_calls |-> 0, llm_fault |-> "none", response |-> NoResponse]

\* No heuristic extraction has run
NoHeuristic ==
    [op |-> "none", cls |-> "None", lines |-> <<>>, text |-> <<>>,
     outcome |-> "none", result |-> <<>>]

\* ---------------------------------------------------------------- inputs
TextEmpty == <<>>
TextBlank == <<" ", "\n", "\t">>
\* "# Al\nCTO good\n<yen>28 <wei><la>"
TextCard == <<"#", " ", "A", "l", "\n", "C", "T", "O", " ", "g", "o", "o", "d", "\n",
              "<yen>", "2", "8", " ", "<wei>", "<la>">>

Texts == {TextEmpty, TextBlank, TextCard}

Ids == {get_extraction_type(c) : c \in Schemas} \cup {"unknown_type"}

ExtractorInstances == {LangChainExtractor(env) : env \in EnvValues} \cup {SimpleRegexExtractor}

\* Field assignments of the instances whose confidence is computed.
StrValues == {None, Str(<<>>), Str(<<" ">>), Str(<<"x">>)}
ScoreValues == {Float(0), Float(Scale \div 5), Float(Scale \div 2),
                Float((4 * Scale) \div 5), Float(Scale)}
ListValues == {None, List(<<>>), List(<<"good">>)}

FieldAssignments(cls) ==
    IF cls = "Sentiment"
    THEN {[sentiment |-> a, confidence_score |-> b, keywords |-> c] :
            a \in StrValues, b \in ScoreValues, c \in ListValues}
    ELSE [FieldSet(cls) -> StrValues]

Instances(cls) ==
    {[cls |-> cls, f |-> f, confidence |-> 0, updates |-> 0] : f \in FieldAssignments(cls)}

NoConf == 0 - 1

\* --------------------------------------------------------------- actions
\* registry.register_model(cls)
RegisterModel ==
    \E cls \in Schemas :
        /\ call = NoCall
        /\ Cardinality(Keys(models) \cup {get_extraction_type(cls)}) <= MaxModels
        /\ models' = register_model(models, cls)
        /\ latest' = [latest EXCEPT ![get_extraction_type(cls)] = cls]
        /\ call' = [NoCall EXCEPT !.op = "register_model", !.cls = cls, !.outcome = "ok",
                                  !.id = get_extraction_type(cls),
                                  !.prev = get_model_class(models, get_extraction_type(cls))]
        /\ UNCHANGED <<extractors, inst, conf, req, ocr, heur>>

\* registry.register_extractor(ext)
RegisterExtractor ==
    \E ext \in ExtractorInstances :
        /\ call = NoCall
        /\ Len(extractors) < MaxExtractors
        /\ extractors' = register_extractor(extractors, ext)
        /\ call' = [NoCall EXCEPT !.op = "register_extractor", !.outcome = "ok"]
        /\ UNCHANGED <<models, latest, inst, conf, req, ocr, heur>>

\* registry.get_model_class(id)
GetModelClass ==
    \E id \in Ids :
        /\ call = NoCall
        /\ call' = [NoCall EXCEPT !.op = "get_model_class", !.id = id, !.outcome = "ok",
                                  !.cls = get_model_class(models, id)]
        /\ UNCHANGED <<models, extractors, latest, inst, conf, req, ocr, heur>>

\* registry.get_supported_types()
GetSupportedTypes ==
    /\ call = NoCall
    /\ call' = [NoCall EXCEPT !.op = "get_supported_types", !.outcome = "ok",
                              !.ret_types = get_supported_types(models)]
    /\ UNCHANGED <<models, extractors, latest, inst, conf, req, ocr, heur>>

\* registry.find_extractor(cls)
FindExtractor ==
    \E cls \in Schemas :
        /\ call = NoCall
        /\ call' = [NoCall EXCEPT !.op = "find_extractor", !.cls = cls, !.outcome = "ok",
                                  !.ret_idx = find_extractor(extractors, cls)]
        /\ UNCHANGED <<models, extractors, latest, inst, conf, req, ocr, heur>>

\* registry.extract(text, id), over what the LLM answers when it is asked and
\* over the item whose update_confidence raises
Extract ==
    \E text \in Texts, id \in Ids :
        LET model_class == get_model_class(models, id)
            asked == /\ model_class # "None"
                     /\ find_extractor(extractors, model_class) # 0
                     /\ extractors[find_extractor(extractors, model_class)].llm
                     /\ ~IsBlankText(text)
        IN \E llm \in (IF asked THEN LLMResponses(model_class) ELSE {LLMError}),
              failAt \in 0..MaxItems :
               /\ call = NoCall
               /\ call' = Registry_extract(models, extractors, text, id, llm, failAt)
               /\ UNCHANGED <<models, extractors, latest, inst, conf, req, ocr, heur>>

\* The caller takes the result of the call; the next call may start.  The
\* process is single-threaded: one registry call runs at a time.
Return ==
    /\ call # NoCall
    /\ call' = NoCall
    /\ UNCHANGED <<models, extractors, latest, inst, conf, req, ocr, heur>>

Init ==
    /\ models = <<>>
    /\ extractors = <<>>
    /\ call = NoCall
    /\ latest = [id \in Ids |-> "None"]
    /\ inst = EmptyItem("Person")
    /\ conf = NoConf
    /\ req = NoRequest
    /\ ocr = NoOcrCall
    /\ heur = NoHeuristic

Next ==
    \/ RegisterModel
    \/ RegisterExtractor
    \/ GetModelClass
    \/ GetSupportedTypes
    \/ FindExtractor
    \/ Extract
    \/ Return

Spec == Init /\ [][Next]_vars

\* A second specification: calculate_confidence and update_confidence applied
\* to every instance of the built-in and plugin schemas.
InitConf ==
    /\ models = <<>>
    /\ extractors = <<>>
    /\ call = NoCall
    /\ latest = [id \in Ids |-> "None"]
    /\ inst \in UNION {Instances(cls) : cls \in Schemas \ {"BadgePerson"}}
    /\ conf = NoConf
    /\ req = NoRequest
    /\ ocr = NoOcrCall
    /\ heur = NoHeuristic

\* conf = inst.calculate_confidence()
CalculateConfidence ==
    /\ conf' = calculate_confidence(inst)
    /\ UNCHANGED <<models, extractors, call, latest, inst, req, ocr, heur>>

\* inst.update_confidence()
UpdateConfidence ==
    /\ inst.updates < MaxUpdates
    /\ inst' = update_confidence(inst)
    /\ UNCHANGED <<models, extractors, call, latest, conf, req, ocr, heur>>

NextConf ==
    \/ CalculateConfidence
    \/ UpdateConfidence

SpecConf == InitConf /\ [][NextConf]_vars

\* A third specification: the POST /extract handler of the server, with the
\* OCR client and the server's extractor, one request at a time, and direct
\* calls of the OCR client between requests.
ContentTypes ==
    {None, Str(<<>>), Str(<<"t", "e", "x", "t", "/", "p", "l", "a", "i", "n">>),
     Str(<<"i", "m", "a", "g", "e">>),
     Str(<<"i", "m", "a", "g", "e", "/", "p", "n", "g">>)}

Filenames == {None, Str(<<"c", "a", "r", "d">>), Str(<<"a", ".", "p", "n", "g">>)}

\* Values of md_content: a text, a blank text, null and a number
MdValues ==
    {Str(<<"#", " ", "A", "l", "\n", "C", "T", "O">>), Str(<<" ">>), None, Float(Scale)}

EntryValues ==
    {ResultEntry(FALSE, FALSE, None), ResultEntry(TRUE, FALSE, None)}
    \cup {ResultEntry(TRUE, TRUE, v) : v \in MdValues}

JsonBodies ==
    {ApiResponse(FALSE, "absent", <<>>), ApiResponse(TRUE, "absent", <<>>),
     ApiResponse(TRUE, "falsy", <<>>), ApiResponse(TRUE, "other", <<>>)}
    \cup {ApiResponse(TRUE, "mapping", es) :
            es \in UNION {[1..k -> EntryValues] : k \in 1..MaxEntries}}

HttpOutcomes ==
    {Http("open_error", 0, FALSE, NoJson), Http("request_exception", 0, FALSE, NoJson),
     Http("response", 200, FALSE, NoJson), Http("response", 500, FALSE, NoJson)}
    \cup {Http("response", status, TRUE, json) : status \in {200, 500}, json \in JsonBodies}

\* server.LangChainExtractor.__init__: whether self.structured_llm is set
server_init_llm(env) ==
    Truthy(getenv(env, <<"f", "a", "k", "e", "_", "k", "e", "y">>))

InitServer ==
    /\ models = <<>>
    /\ extractors = <<>>
    /\ call = NoCall
    /\ latest = [id \in Ids |-> "None"]
    /\ inst = EmptyItem("Person")
    /\ conf = NoConf
    /\ req \in {[NoRequest EXCEPT !.llm = server_init_llm(env)] : env \in EnvValues}
    /\ ocr = NoOcrCall
    /\ heur = NoHeuristic

\* A POST /extract request arrives with an upload
Receive ==
    \E content_type \in ContentTypes, filename \in Filenames :
        /\ req.pc = "idle"
        /\ ocr = NoOcrCall
        /\ req' = [req EXCEPT !.pc = "validate", !.content_type = content_type,
                              !.filename = filename]
        /\ UNCHANGED <<models, extractors, call, latest, inst, conf, ocr, heur>>

\* `if not file.content_type or ...: raise HTTPException(status_code=400, ...)`
ValidateContentType ==
    /\ req.pc = "validate"
    /\ req' = IF NotAnImage(req.content_type)
              THEN [req EXCEPT !.pc = "done",
                               !.response = Response("http_error", FALSE,
                                                     server_Person(<<>>), "not_image", None)]
              ELSE [req EXCEPT !.pc = "tempfile"]
    /\ UNCHANGED <<models, extractors, call, latest, inst, conf, ocr, heur>>

\* `with tempfile.NamedTemporaryFile(delete=False, suffix=Path(file.filename).suffix)`:
\* Path(None) raises TypeError, and no handler of the function encloses it
OpenTempFile ==
    /\ req.pc = "tempfile"
    /\ req' = IF req.filename.t = "none"
              THEN [req EXCEPT !.pc = "done",
                               !.response = Response("fault", FALSE,
                                                     server_Person(<<>>), "TypeError", None)]
              ELSE [req EXCEPT !.pc = "read", !.temp = "open"]
    /\ UNCHANGED <<models, extractors, call, latest, inst, conf, ocr, heur>>

\* `content = await file.read(); temp_file.write(content); temp_file.flush()`,
\* which succeed or raise into `except Exception`
ReadUpload ==
    \E ok \in BOOLEAN :
        /\ req.pc = "read"
        /\ req' = IF ok THEN [req EXCEPT !.pc = "ocr"]
                  ELSE [req EXCEPT !.pc = "finally",
                                   !.response = Failed("processing_error")]
        /\ UNCHANGED <<models, extractors, call, latest, inst, conf, ocr, heur>>

\* `ocr_text = ocr_client.extract_text_from_image(temp_file.name)` and the
\* `if ocr_text is None:` after it; r is what the client gave back
AfterOcr(q, r) ==
    [q EXCEPT !.posts = r.posts, !.ocr_fault = r.fault, !.ocr_text = r.ret,
              !.pc = IF r.outcome = "raised" \/ r.ret = None THEN "finally" ELSE "extract",
              !.response = IF r.outcome = "raised" THEN Failed("processing_error")
                           ELSE IF r.ret = None THEN Failed("ocr_failed")
                           ELSE @]

CallOcr ==
    \E http \in HttpOutcomes :
        /\ req.pc = "ocr"
        /\ ocr' = OcrCalled(TRUE, http, extract_text_from_image(TRUE, http))
        /\ req' = AfterOcr(req, extract_text_from_image(TRUE, http))
        /\ UNCHANGED <<models, extractors, call, latest, inst, conf, heur>>

\* `person_info = extractor.extract_person_info(ocr_text)` and the
\* ExtractionResponse built from it; p is what the extractor gave back
AfterExtract(q, p, validates) ==
    [q EXCEPT !.llm_calls = p.llm_calls, !.llm_fault = p.fault, !.pc = "finally",
              !.response = IF p.outcome = "raised" THEN Failed("processing_error")
                           ELSE Succeeded(p.person, q.ocr_text, validates)]

\* Whether extract_person_info reaches the structured LLM
LLMAsked(q) ==
    q.llm /\ q.ocr_text.t = "str" /\ Strip(q.ocr_text.s) # <<>>

CallExtractor ==
    \E llm \in (IF LLMAsked(req) THEN LLMPersonResponses ELSE {LLMPersonError}),
       validates \in (IF req.ocr_text.t = "str" THEN {TRUE} ELSE BOOLEAN) :
        /\ req.pc = "extract"
        /\ req' = AfterExtract(req, extract_person_info(req.llm, req.ocr_text, llm),
                               validates)
        /\ UNCHANGED <<models, extractors, call, latest, inst, conf, ocr, heur>>

\* `finally: try: os.unlink(temp_file.name) except Exception: pass`
Finally ==
    /\ req.pc = "finally"
    /\ req' = [req EXCEPT !.pc = "done", !.temp = "unlinked"]
    /\ UNCHANGED <<models, extractors, call, latest, inst, conf, ocr, heur>>

\* The response leaves the server; the next request may arrive
Respond ==
    /\ req.pc = "done"
    /\ req' = [NoRequest EXCEPT !.llm = req.llm]
    /\ ocr' = NoOcrCall
    /\ UNCHANGED <<models, extractors, call, latest, inst, conf, heur>>

\* ocr_client.extract_text_from_image(path) called outside a request
DirectOcrCall ==
    \E path_exists \in BOOLEAN, http \in HttpOutcomes :
        /\ req.pc = "idle"
        /\ ocr = NoOcrCall
        /\ ocr' = OcrCalled(path_exists, http, extract_text_from_image(path_exists, http))
        /\ UNCHANGED <<models, extractors, call, latest, inst, conf, req, heur>>

\* The caller takes what the client returned
OcrReturn ==
    /\ req.pc = "idle"
    /\ ocr # NoOcrCall
    /\ ocr' = NoOcrCall
    /\ UNCHANGED <<models, extractors, call, latest, inst, conf, req, heur>>

NextServer ==
    \/ Receive
    \/ ValidateContentType
    \/ OpenTempFile
    \/ ReadUpload
    \/ CallOcr
    \/ CallExtractor
    \/ Finally
    \/ Respond
    \/ DirectOcrCall
    \/ OcrReturn

SpecServer == InitServer /\ [][NextServer]_vars

\* A fourth specification: LangChainExtractor.extract on its heuristic path
\* (no LLM client), for each built-in schema over texts made of a few lines
\* chosen to meet and to miss the rules of that schema's heuristic.
PersonLines ==
    {<<"#", " ", "A", "l">>, <<"C", "T", "O">>, <<"#">>, <<" ">>}

\* "Good great", "bad poor", five positive words, six negative words, no
\* keyword
SentimentLines ==
    {<<"G", "o", "o", "d", " ", "g", "r", "e", "a", "t">>,
     <<"b", "a", "d", " ", "p", "o", "o", "r">>,
     <<"<hao>", "<bang>", "<you>", "<xiu>", "<xi>", "<huan>", "<tui>", "<jian>">>,
     <<"<cha>", "<huai>", "<zao>", "<gao>", "<shi>", "<wang>", "<bu>", "<man>",
       "<tao>", "<yan>">>,
     <<"o", "k">>}

\* "Co tel 9", "a@b.com", "tel 12", "Tel 3@x", "x@y", "z@w", "Bo"
AddressLines ==
    {<<"C", "o", " ", "t", "e", "l", " ", "9">>,
     <<"a", "@", "b", ".", "c", "o", "m">>,
     <<"t", "e", "l", " ", "1", "2">>,
     <<"T", "e", "l", " ", "3", "@", "x">>,
     <<"x", "@", "y">>,
     <<"z", "@", "w">>,
     <<"B", "o">>}

\* "$5", "<yen>6 Tea", "Tea", "Cake", "ab"
ProductLines ==
    {<<"$", "5">>, <<"<yen>", "6", " ", "T", "e", "a">>, <<"T", "e", "a">>,
     <<"C", "a", "k", "e">>, <<"a", "b">>}

HeurLines(cls) ==
    CASE cls = "Person" -> PersonLines
      [] cls = "Sentiment" -> SentimentLines
      [] cls = "ProductInfo" -> ProductLines
      [] OTHER -> AddressLines

\* The person rule reads three lines: its texts hold one line more
HeurMaxLines(cls) == IF cls = "Person" THEN MaxLines + 1 ELSE MaxLines

LineSeqs(cls) == UNION {[1..k -> HeurLines(cls)] : k \in 0..HeurMaxLines(cls)}

\* "\n".join(lines)
RECURSIVE JoinLines(_)
JoinLines(ls) ==
    IF ls = <<>> THEN <<>>
    ELSE IF Len(ls) = 1 THEN ls[1]
    ELSE ls[1] \o <<"\n">> \o JoinLines(Tail(ls))

\* LangChainExtractor() built with an empty LLM_API_KEY: self.llm is None
HeuristicExtractor == LangChainExtractor(Str(<<>>))

\* The observation of extractor.extract(text, cls) for the text of the
\* lines ls, when it gave back r
HeuristicRun(cls, ls, r) ==
    [op |-> "extract", cls |-> cls, lines |-> ls, text |-> JoinLines(ls),
     outcome |-> r.outcome, result |-> r.result]

InitHeur ==
    /\ models = <<>>
    /\ extractors = <<>>
    /\ call = NoCall
    /\ latest = [id \in Ids |-> "None"]
    /\ inst = EmptyItem("Person")
    /\ conf = NoConf
    /\ req = NoRequest
    /\ ocr = NoOcrCall
    /\ heur = NoHeuristic

\* extractor.extract(text, cls) with no LLM client
HeuristicExtract ==
    \E cls \in BuiltinSchemas :
        \E ls \in LineSeqs(cls) :
            /\ heur = NoHeuristic
            /\ heur' = HeuristicRun(cls, ls,
                          LangChain_extract(HeuristicExtractor, JoinLines(ls), cls,
                                            LLMError, 0))
            /\ UNCHANGED <<models, extractors, call, latest, inst, conf, req, ocr>>

\* The caller takes the list
HeuristicReturn ==
    /\ heur # NoHeuristic
    /\ heur' = NoHeuristic
    /\ UNCHANGED <<models, extractors, call, latest, inst, conf, req, ocr>>

NextHeur ==
    \/ HeuristicExtract
    \/ HeuristicReturn

SpecHeur == InitHeur /\ [][NextHeur]_vars

\* ------------------------------------------------------------ properties
Supporting(cls) == {i \in 1..Len(extractors) : supports_model(extractors[i], cls)}

IsPrefix(a, b) == Len(a) <= Len(b) /\ SubSeq(b, 1, Len(a)) = a

\* C1: extract with an identifier that was never registered fails with the
\* unsupported-type error, whatever the text: it returns no list and calls no
\* strategy.
C1_UnknownTypeFails ==
    (call.op = "extract" /\ latest[call.id] = "None")
        => /\ call.outcome = "unsupported"
           /\ call.result = <<>>
           /\ call.used = <<>>
           /\ call.llm_calls = 0

\* An unknown identifier is extracted from a non-blank text while the
\* registry holds a schema and a strategy that supports it.
C1_Witness ==
    /\ call.op = "extract"
    /\ call.id = "unknown_type"
    /\ call.text = TextCard
    /\ call.outcome = "unsupported"
    /\ models # <<>>
    /\ \E i \in 1..Len(models) : Supporting(models[i].cls) # {}

\* C2: for a registered identifier, extract fails with "no extractor
\* available" exactly when no registered strategy supports the resolved
\* schema; otherwise it calls exactly one strategy, the one find_extractor
\* returns, and returns the list that strategy handed back, unchanged.
C2_DelegatesOnce ==
    (call.op = "extract" /\ latest[call.id] # "None")
        => /\ call.outcome = "no_extractor" <=> Supporting(latest[call.id]) = {}
           /\ call.outcome = "no_extractor" => call.used = <<>> /\ call.result = <<>>
           /\ call.outcome # "no_extractor"
                => /\ call.used = <<find_extractor(extractors, latest[call.id])>>
                   /\ call.outcome = "returned"
                   /\ call.result = call.handed

\* A strategy handed back two items, one of them of confidence 0.
C2_Witness ==
    /\ call.op = "extract"
    /\ call.outcome = "returned"
    /\ Len(call.handed) = 2
    /\ call.result = call.handed
    /\ call.handed[1].confidence = 0
    /\ call.handed[2].confidence > 0

\* No strategy supports the schema of a registered identifier.
C2_WitnessNoExtractor ==
    /\ call.op = "extract"
    /\ call.outcome = "no_extractor"
    /\ extractors # <<>>

\* C3: find_extractor returns the earliest-registered strategy that supports
\* the schema, and none only when no registered strategy supports it.
C3_FirstRegisteredWins ==
    call.op = "find_extractor"
        => /\ call.ret_idx = 0 <=> Supporting(call.cls) = {}
           /\ call.ret_idx # 0
                => /\ call.ret_idx \in Supporting(call.cls)
                   /\ \A j \in Supporting(call.cls) : call.ret_idx <= j

\* Two different strategies both support the schema; the first is returned.
C3_Witness ==
    /\ call.op = "find_extractor"
    /\ Supporting(call.cls) = {1, 2}
    /\ extractors[1] # extractors[2]
    /\ call.ret_idx = 1

\* Every lookup resolves an identifier to the schema registered last for it.
C4_LookupsSeeLast ==
    /\ \A id \in Ids : get_model_class(models, id) = latest[id]
    /\ call.op \in {"get_model_class", "extract", "register_model"}
         => call.cls = latest[call.id]
    /\ \A id \in Ids :
         /\ Cardinality({i \in 1..Len(models) : models[i].id = id})
              = IF latest[id] = "None" THEN 0 ELSE 1
         /\ call.op = "get_supported_types"
              => LET listed == {i \in 1..Len(call.ret_types) : call.ret_types[i].type = id}
                 IN /\ Cardinality(listed) = IF latest[id] = "None" THEN 0 ELSE 1
                    /\ \A i \in listed :
                         call.ret_types[i].description = get_description(latest[id])

\* Registering the schema an identifier already resolves to changes nothing.
C4_SameSchemaAgain ==
    (call'.op = "register_model" /\ call.op = "none" /\ latest[call'.id] = call'.cls)
        => models' = models

\* C4: after two schemas are registered under one identifier, get_model_class,
\* extract and get_supported_types resolve it to the second only; registering
\* the same schema again leaves the mapping unchanged; the identifier is
\* listed exactly once.
C4_LastWriteWins == [](C4_LookupsSeeLast) /\ [][C4_SameSchemaAgain]_vars

\* A second schema has just replaced the first under the identifier "person".
C4_Witness ==
    /\ call.op = "register_model"
    /\ call.prev = "Person"
    /\ call.cls = "BadgePerson"
    /\ get_model_class(models, "person") = "BadgePerson"

IsBlankField(v) ==
    \/ v.t = "none"
    \/ v.t = "str" /\ Strip(v.s) = <<>>
    \/ v.t = "list" /\ v.s = <<>>
    \/ v.t = "float" /\ v.n = 0

AllBlank(x) == \A name \in FieldSet(x.cls) : IsBlankField(x.f[name])

\* C6: for every schema type and every assignment of its fields,
\* calculate_confidence() is in [0,1], and it is exactly 0.0 when every field
\* other than confidence is null or blank (a Sentiment built from defaults
\* only, or with an empty keywords list, included).
C6_ConfidenceInRange ==
    conf # NoConf
        => /\ conf \in 0..Scale
           /\ AllBlank(inst) => conf = 0

\* The part of C6 about the range alone.
ConfidenceWithinUnitInterval == conf # NoConf => conf \in 0..Scale

\* C7: every instance in the list a strategy's extract returns has had
\* update_confidence() invoked exactly once, so its confidence equals its
\* calculate_confidence().
C7_UpdatedOnceBeforeReturn ==
    (call.op = "extract" /\ call.outcome = "returned")
        => \A i \in 1..Len(call.result) :
              /\ call.result[i].updates = 1
              /\ call.result[i].confidence = calculate_confidence(call.result[i])

\* C8: every strategy returns the empty list for an empty or whitespace-only
\* text, raising nothing and calling no LLM.
C8_BlankTextYieldsEmpty ==
    (call.op = "extract" /\ call.used # <<>> /\ IsBlankText(call.text))
        => /\ call.outcome = "returned"
           /\ call.result = <<>>
           /\ call.llm_calls = 0

\* C9: a strategy's extract never raises to the registry: whatever raised
\* inside it (the LLM call, the schema constructor, update_confidence of an
\* item), it returns the empty list, and no list it returns is processed
\* only in part.
C9_StrategyNeverRaises ==
    (call.op = "extract" /\ call.used # <<>>)
        => /\ call.outcome = "returned"
           /\ call.fault # "none" => call.result = <<>>
           /\ \A i, j \in 1..Len(call.result) :
                 call.result[i].updates = call.result[j].updates

\* update_confidence raised inside an extract on the LLM path, which
\* returned the empty list.
C9_Witness ==
    /\ call.op = "extract"
    /\ call.path = "llm"
    /\ call.fault = "update"
    /\ call.outcome = "returned"
    /\ call.result = <<>>

\* The LLM call itself raised.
C9_WitnessLLM ==
    /\ call.op = "extract"
    /\ call.fault = "llm"
    /\ call.outcome = "returned"

\* The schema constructor raised on the heuristic path.
C9_WitnessConstruct ==
    /\ call.op = "extract"
    /\ call.path = "heuristic"
    /\ call.fault = "construct"
    /\ call.outcome = "returned"

\* An LLM API key is configured: LLM_API_KEY is set to a non-empty value.
KeyConfigured(env) == env.t = "str" /\ env.s # <<>>

\* C10: with no LLM API key configured (the variable absent or empty) the
\* LLM-backed strategy holds no LLM client and every extract takes the
\* heuristic path, calls no LLM and reports no error; an LLM call is made
\* only when a key is configured.
C10_NoKeyMeansHeuristic ==
    /\ \A i \in 1..Len(extractors) :
          extractors[i].cls = "LangChainExtractor"
              => (extractors[i].llm <=> KeyConfigured(extractors[i].env))
    /\ (call.op = "extract" /\ call.used # <<>>
            /\ extractors[call.used[1]].cls = "LangChainExtractor")
          => /\ ~KeyConfigured(extractors[call.used[1]].env)
                  => /\ call.llm_calls = 0
                     /\ call.path \in {"blank", "heuristic"}
                     /\ call.outcome = "returned"
             /\ call.llm_calls > 0 => KeyConfigured(extractors[call.used[1]].env)

\* The part of C10 that the code keeps: an empty LLM_API_KEY selects the
\* heuristic path.
EmptyKeyMeansHeuristic ==
    (call.op = "extract" /\ call.used # <<>>
        /\ extractors[call.used[1]] = LangChainExtractor(Str(<<>>)))
      => call.llm_calls = 0 /\ call.path \in {"blank", "heuristic"}

\* ---- server.py and ocr_client.py
Answered == req.pc = "done"

\* The OCR call of the request failed: a request was sent and no text came back
OcrCallFailed == req.posts = 1 /\ req.ocr_text = None

\* The LLM call of the request failed: the LLM was invoked and raised
LlmCallFailed == req.llm_calls = 1 /\ req.llm_fault = "llm"

ReportsFailure ==
    /\ req.response.kind = "extraction"
    /\ ~req.response.success
    /\ req.response.error_message # "none"

\* C11: within one request the OCR service is called at most once and the
\* LLM at most once; when either external call fails no further external
\* call is made for the request and the response reports a failed extraction
\* (success false with an error message), not a success.
C11_NoRetryFailureReported ==
    Answered =>
        /\ req.posts <= 1
        /\ req.llm_calls <= 1
        /\ OcrCallFailed => (req.llm_calls = 0 /\ ReportsFailure)
        /\ LlmCallFailed => ReportsFailure

\* What does hold of the external calls: each is made at most once, none
\* follows a failed OCR call, and a failed OCR call is reported as a failure.
AtMostOneCallEach ==
    /\ req.posts <= 1
    /\ req.llm_calls <= 1
    /\ (Answered /\ OcrCallFailed) => (req.llm_calls = 0 /\ ReportsFailure)

\* The content type names an image
IsImageType(content_type) ==
    /\ content_type.t = "str"
    /\ Len(content_type.s) >= 6
    /\ SubSeq(content_type.s, 1, 6) = <<"i", "m", "a", "g", "e", "/">>

NamedUploadAnswered ==
    (Answered /\ req.filename # None) =>
        /\ req.response.kind \in {"http_error", "extraction"}
        /\ req.response.kind = "http_error" <=> ~IsImageType(req.content_type)
        /\ req.temp \in {"none", "unlinked"}

\* The parsed body has a results entry that is an object with md_content
EntryHasMd(e) == e.dict /\ e.has_md
SomeEntryHasMd(json) ==
    /\ json.obj
    /\ json.results = "mapping"
    /\ \E i \in 1..Len(json.entries) : EntryHasMd(json.entries[i])

\* C13: OCRClient.extract_text_from_image never raises: for a missing file,
\* a request exception, a non-200 response, a body that fails to parse, or a
\* parsed response with no results / no md_content entry it returns none,
\* and it returns text only for a 200 response, the text being the
\* md_content of the first result entry that has one.
C13_OcrClientNeverRaises ==
    ocr.op = "extract_text_from_image" =>
        /\ ocr.outcome = "returned"
        /\ (\/ ~ocr.path_exists
            \/ ocr.http.kind # "response"
            \/ ocr.http.status # 200
            \/ ~ocr.http.parsed
            \/ ~SomeEntryHasMd(ocr.http.json)) => ocr.ret = None
        /\ ocr.ret # None =>
              /\ ocr.path_exists /\ ocr.http.kind = "response" /\ ocr.http.status = 200
              /\ ocr.http.parsed /\ SomeEntryHasMd(ocr.http.json)
              /\ \E i \in 1..Len(ocr.http.json.entries) :
                    /\ EntryHasMd(ocr.http.json.entries[i])
                    /\ \A j \in 1..(i - 1) : ~EntryHasMd(ocr.http.json.entries[j])
                    /\ ocr.ret = ocr.http.json.entries[i].md

\* A call answered with two entries that both carry md_content, the texts
\* differing, returned the first
C13_Witness ==
    /\ ocr.op = "extract_text_from_image"
    /\ ocr.http.status = 200
    /\ Len(ocr.http.json.entries) = 2
    /\ EntryHasMd(ocr.http.json.entries[1]) /\ EntryHasMd(ocr.http.json.entries[2])
    /\ ocr.http.json.entries[1].md # ocr.http.json.entries[2].md
    /\ ocr.ret = ocr.http.json.entries[1].md
    /\ ocr.ret.t = "str"

\* A call whose first entry carries no md_content returned the second's
C13_WitnessSkips ==
    /\ ocr.op = "extract_text_from_image"
    /\ Len(ocr.http.json.entries) = 2
    /\ ~EntryHasMd(ocr.http.json.entries[1])
    /\ ocr.ret # None
    /\ ocr.ret = ocr.http.json.entries[2].md

\* A call that a failed request ended returned none
C13_WitnessFailure ==
    /\ ocr.op = "extract_text_from_image"
    /\ ocr.path_exists
    /\ ocr.http.kind = "request_exception"
    /\ ocr.ret = None

\* ---- the heuristic path of LangChainExtractor
Ran(cls) == heur.op = "extract" /\ heur.cls = cls

HasVisibleChar(l) == \E i \in 1..Len(l) : l[i] \notin Whitespace

\* l without the whitespace around it
Trim(l) ==
    IF ~HasVisibleChar(l) THEN <<>>
    ELSE SubSeq(l,
                CHOOSE i \in 1..Len(l) :
                    l[i] \notin Whitespace /\ \A j \in 1..(i - 1) : l[j] \in Whitespace,
                CHOOSE i \in 1..Len(l) :
                    l[i] \notin Whitespace /\ \A j \in (i + 1)..Len(l) : l[j] \in Whitespace)

\* The number of '#' characters l starts with
LeadingMarks(l) ==
    CHOOSE k \in 0..Len(l) :
        /\ \A i \in 1..k : l[i] = "#"
        /\ k = Len(l) \/ l[k + 1] # "#"

\* l without its leading '#' markup and the whitespace around the rest
Unmarked(l) == Trim(SubSeq(Trim(l), LeadingMarks(Trim(l)) + 1, Len(Trim(l))))

\* The non-blank lines of the text handed to the heuristic
VisibleLines == SelectSeq(heur.lines, HasVisibleChar)
TrimmedLines == [i \in 1..Len(VisibleLines) |-> Trim(VisibleLines[i])]

OneResult == heur.outcome = "returned" /\ Len(heur.result) = 1

\* C14: on the heuristic path, for each of the five built-in types and every
\* non-blank input text, extract returns a list of exactly one instance,
\* never zero and never more, also when no line matches any rule.
C14_ExactlyOneInstance ==
    (heur.op = "extract" /\ HasVisibleChar(heur.text)) =>
        /\ heur.cls \in BuiltinSchemas
        /\ OneResult
        /\ heur.result[1].cls = heur.cls

\* A company text none of whose lines matches a rule gave one instance with
\* every field null
C14_Witness ==
    /\ Ran("CompanyInfo")
    /\ HasVisibleChar(heur.text)
    /\ Len(heur.result) = 1
    /\ \A name \in FieldSet("CompanyInfo") : heur.result[1].f[name] = None

\* Keyword w occurs in the lowercased text
Occurs(w) == Contains(Lower(heur.text), KwChars(w))

PositiveHits == Cardinality({k \in 1..Len(positive_words) : Occurs(positive_words[k])})
NegativeHits == Cardinality({k \in 1..Len(negative_words) : Occurs(negative_words[k])})
WinningHits == IF PositiveHits > NegativeHits THEN PositiveHits ELSE NegativeHits

\* min(0.8, count * 0.2), or 0.5 on a tie
ExpectedScore ==
    IF PositiveHits = NegativeHits THEN Scale \div 2
    ELSE IF WinningHits >= 4 THEN (4 * Scale) \div 5
    ELSE WinningHits * (Scale \div 5)

\* C15: heuristic sentiment extraction returns, as the confidence of the
\* result leaving extract, min(0.8, count * 0.2) for a decided sentiment
\* (count: the matched keywords of the winning list) and 0.5 for a neutral
\* result.
C15_SentimentConfidence ==
    (Ran("Sentiment") /\ HasVisibleChar(heur.text)) =>
        /\ OneResult
        /\ heur.result[1].confidence = ExpectedScore

\* C15, amended: that value is what the heuristic stores in the field
\* confidence_score; the confidence of the result leaving extract is the
\* mean of it and the field completeness, which is 1.0 here (all three
\* fields count as filled, an empty keyword list included): 0.7 for two
\* positive keywords and 0.75 for a neutral result.
C15_SentimentScoreAndConfidence ==
    (Ran("Sentiment") /\ HasVisibleChar(heur.text)) =>
        /\ OneResult
        /\ heur.result[1].f["confidence_score"] = Float(ExpectedScore)
        /\ heur.result[1].confidence = (Scale + ExpectedScore) \div 2

\* Two positive keywords and no negative one: score 0.4, confidence 0.7
C15_Witness ==
    /\ Ran("Sentiment")
    /\ PositiveHits = 2 /\ NegativeHits = 0
    /\ Len(heur.result) = 1
    /\ heur.result[1].f["confidence_score"] = Float(2 * (Scale \div 5))
    /\ heur.result[1].confidence = (7 * Scale) \div 10

\* No keyword: neutral, score 0.5, no keywords, confidence 0.75
C15_WitnessNeutral ==
    /\ Ran("Sentiment")
    /\ HasVisibleChar(heur.text)
    /\ PositiveHits = 0 /\ NegativeHits = 0
    /\ Len(heur.result) = 1
    /\ heur.result[1].f["sentiment"] = Str(<<"n", "e", "u", "t", "r", "a", "l">>)
    /\ heur.result[1].f["keywords"] = List(<<>>)
    /\ heur.result[1].confidence = (3 * Scale) \div 4

\* Five keywords of the winning list: the score stays at the cap of 0.8
C15_WitnessCapped ==
    /\ Ran("Sentiment")
    /\ PositiveHits >= 5 /\ NegativeHits = 0
    /\ Len(heur.result) = 1
    /\ heur.result[1].f["confidence_score"] = Float((4 * Scale) \div 5)

ExpectedLabel ==
    IF PositiveHits > NegativeHits THEN <<"p", "o", "s", "i", "t", "i", "v", "e">>
    ELSE IF NegativeHits > PositiveHits THEN <<"n", "e", "g", "a", "t", "i", "v", "e">>
    ELSE <<"n", "e", "u", "t", "r", "a", "l">>

\* The keywords that occur, positive list first, each list in its order
OccurringWords == SelectSeq(positive_words \o negative_words, Occurs)

\* C16: the label is positive exactly when more positive than negative
\* keywords occur in the lowercased text, negative in the symmetric case and
\* neutral on a tie; keywords is the list of all matched keywords in scan
\* order (positive list, then negative list) cut to its first 5.
C16_SentimentLabelAndKeywords ==
    (Ran("Sentiment") /\ HasVisibleChar(heur.text)) =>
        /\ OneResult
        /\ heur.result[1].f["sentiment"] = Str(ExpectedLabel)
        /\ heur.result[1].f["keywords"].t = "list"
        /\ Len(heur.result[1].f["keywords"].s) <= 5
        /\ Len(heur.result[1].f["keywords"].s) = Min(5, Len(OccurringWords))
        /\ \A i \in 1..Len(heur.result[1].f["keywords"].s) :
              heur.result[1].f["keywords"].s[i] = OccurringWords[i]

\* A text labelled negative whose five keywords are all positive words
C16_Witness ==
    /\ Ran("Sentiment")
    /\ Len(heur.result) = 1
    /\ heur.result[1].f["sentiment"] = Str(<<"n", "e", "g", "a", "t", "i", "v", "e">>)
    /\ Len(heur.result[1].f["keywords"].s) = 5
    /\ \A i \in 1..5 :
          \E k \in 1..Len(positive_words) :
              heur.result[1].f["keywords"].s[i] = positive_words[k]

\* A tie of two keywords each is neutral and keeps the four keywords
C16_WitnessTie ==
    /\ Ran("Sentiment")
    /\ PositiveHits = NegativeHits /\ PositiveHits > 0
    /\ Len(heur.result) = 1
    /\ heur.result[1].f["sentiment"] = Str(<<"n", "e", "u", "t", "r", "a", "l">>)
    /\ Len(heur.result[1].f["keywords"].s) = 4

PersonFieldNames == <<"full_name", "job_title", "company_name">>

\* The three fields are the first three non-blank lines, markup stripped,
\* and null where the text has no such line
PersonFieldsFromLines ==
    /\ OneResult
    /\ \A i \in 1..3 :
          heur.result[1].f[PersonFieldNames[i]] =
              IF i <= Len(VisibleLines) THEN Str(Unmarked(VisibleLines[i])) ELSE None

NonEmptyPersonFields ==
    {i \in 1..3 : i <= Len(VisibleLines) /\ Unmarked(VisibleLines[i]) # <<>>}

C17_WitnessBlankLine ==
    /\ Ran("Person")
    /\ Len(heur.lines) = 3 /\ Len(VisibleLines) = 2
    /\ ~HasVisibleChar(heur.lines[2])
    /\ Len(heur.result) = 1
    /\ heur.result[1].f["job_title"] = Str(Unmarked(heur.lines[3]))
    /\ heur.result[1].f["company_name"] = None

\* The predicates the three line scans test, on one stripped line
HasSuffix(l) == ContainsAny(Lower(l), company_suffixes)
HasPhoneWord(l) == ContainsAny(Lower(l), phone_keywords)
HasPhoneRun(l) == \E i \in 1..Len(l) : l[i] \in PhoneChars
HasAt(l) == \E i \in 1..Len(l) : l[i] = "@"
HasCurrency(l) == ContainsAny(l, currency_symbols)

\* Whether line l assigns the field `name` in the heuristic of cls: the
\* field of the first predicate of the scan that l satisfies
Assigns(cls, name, l) ==
    CASE cls = "CompanyInfo" /\ name = "company_name" -> HasSuffix(l)
      [] cls = "CompanyInfo" /\ name = "phone" ->
            ~HasSuffix(l) /\ HasPhoneWord(l) /\ HasPhoneRun(l)
      [] cls = "CompanyInfo" /\ name = "email" ->
            ~HasSuffix(l) /\ ~HasPhoneWord(l) /\ HasAt(l)
      [] cls = "ContactInfo" /\ name = "email" -> HasAt(l)
      [] cls = "ContactInfo" /\ name = "phone" ->
            ~HasAt(l) /\ HasPhoneWord(l) /\ HasPhoneRun(l)
      [] cls = "ContactInfo" /\ name = "name" ->
            ~HasAt(l) /\ ~HasPhoneWord(l) /\ Len(l) > 1
      [] cls = "ProductInfo" /\ name = "price" -> HasCurrency(l)
      [] cls = "ProductInfo" /\ name = "product_name" -> ~HasCurrency(l) /\ Len(l) > 2
      [] OTHER -> FALSE

\* The value line l gives the field: the stripped first run of phone
\* characters for phone, the line itself otherwise
AssignedValue(name, l) ==
    IF name = "phone" THEN Str(Strip(SearchGroup(l, PhoneLens(l)))) ELSE Str(l)

AssigningLines(cls, name) ==
    {i \in 1..Len(TrimmedLines) : Assigns(cls, name, TrimmedLines[i])}

FirstOf(S) == CHOOSE i \in S : \A j \in S : i <= j
LastOf(S) == CHOOSE i \in S : \A j \in S : j <= i

ScanSchemas == {"CompanyInfo", "ContactInfo", "ProductInfo"}

ScanRan ==
    heur.op = "extract" /\ heur.cls \in ScanSchemas /\ HasVisibleChar(heur.text)

\* C18: in the company_info, contact_info and product_info heuristics the
\* first matching line wins for every field: no later line overwrites a
\* filled field, with the single exception of company_info.company_name,
\* which the last matching line sets.
C18_FirstMatchWins ==
    ScanRan =>
        /\ OneResult
        /\ \A name \in FieldSet(heur.cls) :
              heur.result[1].f[name] =
                  IF AssigningLines(heur.cls, name) = {} THEN None
                  ELSE IF heur.cls = "CompanyInfo" /\ name = "company_name"
                  THEN AssignedValue(name, TrimmedLines[LastOf(AssigningLines(heur.cls, name))])
                  ELSE AssignedValue(name, TrimmedLines[FirstOf(AssigningLines(heur.cls, name))])

\* The fields a scan assigns only while they are empty
GuardedFields == {<<"ContactInfo", "name">>, <<"ProductInfo", "product_name">>}

\* What does hold: the first matching line wins for contact_info.name and
\* product_info.product_name only; every other field keeps the value of the
\* last line that matched.
LastMatchWinsUnlessGuarded ==
    ScanRan =>
        /\ OneResult
        /\ \A name \in FieldSet(heur.cls) :
              heur.result[1].f[name] =
                  IF AssigningLines(heur.cls, name) = {} THEN None
                  ELSE IF <<heur.cls, name>> \in GuardedFields
                  THEN AssignedValue(name, TrimmedLines[FirstOf(AssigningLines(heur.cls, name))])
                  ELSE AssignedValue(name, TrimmedLines[LastOf(AssigningLines(heur.cls, name))])

\* C19: in the company_info heuristic each line is tested against the
\* predicates in the order company suffix, phone keyword, '@' and assigns at
\* most one field, that of the first predicate that matches: a line with '@'
\* is stored as email only if it has no suffix substring and no phone
\* keyword.  In the contact_info heuristic the order is '@', phone keyword,
\* name.
C19_OrderedPredicates ==
    (ScanRan /\ heur.cls \in {"CompanyInfo", "ContactInfo"}) =>
        /\ OneResult
        /\ \A name \in FieldSet(heur.cls) :
              /\ heur.result[1].f[name] # None <=> AssigningLines(heur.cls, name) # {}
              /\ heur.result[1].f[name] # None =>
                    \E i \in AssigningLines(heur.cls, name) :
                        heur.result[1].f[name] = AssignedValue(name, TrimmedLines[i])

\* An address ending in ".com" on its own: stored as company_name, email
\* left unset
C19_Witness ==
    /\ Ran("CompanyInfo")
    /\ Len(TrimmedLines) = 1
    /\ HasAt(TrimmedLines[1]) /\ HasSuffix(TrimmedLines[1])
    /\ Len(heur.result) = 1
    /\ heur.result[1].f["company_name"] = Str(TrimmedLines[1])
    /\ heur.result[1].f["email"] = None

\* The same kind of line in a contact text is the email, and a line with a
\* phone keyword and '@' is the phone of a company but the email of a contact
C19_WitnessContact ==
    /\ Ran("ContactInfo")
    /\ Len(TrimmedLines) = 1
    /\ HasAt(TrimmedLines[1]) /\ HasPhoneWord(TrimmedLines[1])
    /\ Len(heur.result) = 1
    /\ heur.result[1].f["email"] = Str(TrimmedLines[1])
    /\ heur.result[1].f["phone"] = None

====
